---- MODULE Spec2Model ----
(***************************************************************************)
(* A model of upsonicai.py: the SerpAPITool.search adapter, the            *)
(* perform_search handler of POST /search/, and the orchestrator           *)
(* (client.agent) that sits between them.                                  *)
(*                                                                         *)
(* The orchestrator is third-party code.  It is modelled by what the       *)
(* handler can observe of it: it may call the tool any number of times     *)
(* (up to MaxToolCalls) with any query, it may absorb or re-raise what the *)
(* tool raises, it may fail itself, and it finally leaves None or a        *)
(* SearchResponse of its own making in search_task.response.               *)
(***************************************************************************)
EXTENDS Integers, Sequences, FiniteSets, TLC

VARIABLES
    environ,        \* process environment read by os.getenv (module-level)
    client,         \* module-level UpsonicClient configuration
    pc,             \* position of each perform_search invocation
    input_data,     \* the SearchInput of each invocation
    search_task,    \* the Task objects, by the invocation owning them
    tool_calls,     \* per invocation: summary of each SerpAPITool.search call
    last_call,      \* per invocation: the latest SerpAPITool.search call in full
    agent_response, \* per invocation: what client.agent left in task.response
    outcome,        \* per invocation: what perform_search returned or raised
    posts           \* number of requests.post calls made so far

vars == <<environ, client, pc, input_data, search_task, tool_calls, last_call,
          agent_response, outcome, posts>>

-----------------------------------------------------------------------------
(* Bounds of the model *)

\* longest organic list the provider answers with
MaxOrganic == 12

\* most tool calls the orchestrator makes for one task
MaxToolCalls == 2

-----------------------------------------------------------------------------
(* Program constants *)

\* search_results[:10]
Top10 == 10

\* response.status_code == 200
StatusOK == 200

\* HTTPException(status_code=500, ...)
InternalError == 500

ApiKeyVar == "SERPAPI_API_KEY"

-----------------------------------------------------------------------------
(* Python values *)

None == [type |-> "NoneType"]

NoException == [type |-> "none", status_code |-> 0, detail |-> ""]

HTTPException(status_code, detail) ==
    [type |-> "HTTPException", status_code |-> status_code, detail |-> detail]

\* requests.post failing to reach the provider
ConnectionError == [type |-> "ConnectionError", status_code |-> 0, detail |-> ""]

\* result.get on an organic entry that is not a JSON object
AttributeError == [type |-> "AttributeError", status_code |-> 0, detail |-> ""]

\* client.agent failing on its own account
AgentError == [type |-> "AgentError", status_code |-> 0, detail |-> ""]

\* the default also when the value is the empty string
GetAbsentOrEmpty(d, key, default) ==
    IF key \in DOMAIN d /\ d[key] # "" THEN d[key] ELSE default

\* dict.get(key, default): the default only when the key is absent
Get(d, key, default) ==
    IF key \in DOMAIN d THEN d[key] ELSE default

\* s[:n] taken one too far to the right, s[1:n+1]
TakeShifted(s, n) ==
    SubSeq(s, 2, IF Len(s) < n + 1 THEN Len(s) ELSE n + 1)

\* s[:n] left out
TakeAll(s, n) == s

\* s[:n]
Take(s, n) ==
    SubSeq(s, 1, IF Len(s) < n THEN Len(s) ELSE n)

\* the placeholders given to empty fields as well as to absent ones
SearchResultDefaultingEmpty(result) ==
    [title   |-> GetAbsentOrEmpty(result, "title", "No Title"),
     link    |-> GetAbsentOrEmpty(result, "link", "#"),
     snippet |-> GetAbsentOrEmpty(result, "snippet", "No Description")]

\* SearchResult(title=..., link=..., snippet=...) from one organic entry
SearchResult(result) ==
    [title   |-> Get(result, "title", "No Title"),
     link    |-> Get(result, "link", "#"),
     snippet |-> Get(result, "snippet", "No Description")]

SearchResponse(results) == [type |-> "SearchResponse", results |-> results]

-----------------------------------------------------------------------------
(* SerpAPITool.search *)

\* `if not api_key` on os.getenv("SERPAPI_API_KEY")
NoApiKey(env) == ApiKeyVar \notin DOMAIN env \/ env[ApiKeyVar] = ""

Raised(posted, exc) ==
    [posted |-> posted, outcome |-> "raise", exc |-> exc, value |-> <<>>]

Returned(posted, value) ==
    [posted |-> posted, outcome |-> "return", exc |-> NoException, value |-> value]

\* what requests.post and the lines after it do with the provider's reply
PostAndMap(query, reply) ==
    IF reply.kind = "network_error" THEN Raised(TRUE, ConnectionError)
    ELSE IF reply.status_code = StatusOK THEN
        LET search_results == Get(reply.json, "organic", <<>>)
            top == Take(search_results, Top10)
        IN  IF \E i \in 1..Len(top) : top[i].json # "object"
            THEN Raised(TRUE, AttributeError)
            ELSE Returned(TRUE, [i \in 1..Len(top) |-> SearchResult(top[i].members)])
    ELSE Raised(TRUE, HTTPException(InternalError,
                        "SerpAPI Request Failed: " \o reply.text))

\* the key looked at only after the request was sent
SearchPostFirst(env, query, reply) ==
    LET r == PostAndMap(query, reply)
    IN  IF NoApiKey(env)
        THEN Raised(TRUE, HTTPException(InternalError, "SerpAPI API Key not found!"))
        ELSE r

search(env, query, reply) ==
    IF NoApiKey(env)
    THEN Raised(FALSE, HTTPException(InternalError, "SerpAPI API Key not found!"))
    ELSE PostAndMap(query, reply)

-----------------------------------------------------------------------------
(* Inputs: what the provider may answer *)

FieldKeys == {"title", "link", "snippet"}

JsonObject(members) == [json |-> "object", members |-> members]

JsonString(text) == [json |-> "string", members |-> <<>>, text |-> text]

\* 0: the key is absent, 1: its value is the empty string, 2: it has a value
FieldKind(key, code) ==
    CASE key = "title"   -> code % 3
      [] key = "link"    -> (code \div 3) % 3
      [] key = "snippet" -> (code \div 9) % 3

\* the i-th organic entry of pattern p; over i and p every combination of
\* absent, empty and valued fields occurs, and valued fields name their position
OrganicEntry(i, p) ==
    LET code == (7 * i + 9 * p) % 27
        present == {k \in FieldKeys : FieldKind(k, code) # 0}
    IN  JsonObject([k \in present |->
            IF FieldKind(k, code) = 1 THEN "" ELSE k \o " " \o ToString(i)])

Organic(n, p) == [i \in 1..n |-> OrganicEntry(i, p)]

Patterns == 0..2

OkReply(json) ==
    [kind |-> "response", status_code |-> StatusOK, json |-> json, text |-> ""]

ErrorReply(status_code) ==
    [kind |-> "response", status_code |-> status_code, json |-> <<>>,
     text |-> "rate limit exceeded"]

NetworkFailure == [kind |-> "network_error"]

NoReply == [kind |-> "none"]

\* a 200 body without the "organic" key
NoOrganicJson == [k \in {"searchParameters"} |-> <<>>]

OtherStatuses == {429}

\* an organic list whose k-th entry is a string instead of an object
WithBadEntry(list, k) == [list EXCEPT ![k] = JsonString("oops")]

ProviderReplies ==
    {OkReply([k \in {"organic"} |-> Organic(n, p)]) : n \in 0..MaxOrganic, p \in Patterns}
    \cup {OkReply(NoOrganicJson)}
    \cup {OkReply([k \in {"organic"} |-> WithBadEntry(Organic(MaxOrganic, 0), j)]) :
              j \in {1, MaxOrganic}}
    \cup {ErrorReply(s) : s \in OtherStatuses}
    \cup {NetworkFailure}

\* the replies used when several requests run at once
FewReplies ==
    {OkReply([k \in {"organic"} |-> Organic(n, 0)]) : n \in {1, 2}}
    \cup {ErrorReply(s) : s \in OtherStatuses}

Keywords == {"rust vs go", ""}

OtherQuery == "latest trends"

Environs ==
    {[k \in {} |-> ""], [k \in {ApiKeyVar} |-> ""], [k \in {ApiKeyVar} |-> "secret"]}

-----------------------------------------------------------------------------
(* perform_search and the orchestrator *)

NotCalled ==
    [posted |-> FALSE, outcome |-> "none", exc |-> NoException, value |-> <<>>]

NoCall == [query |-> "", reply |-> NoReply, call |-> NotCalled]

NoTask == [description |-> "", response |-> None]

NoOutcome == [state |-> "none", error |-> NoException, body |-> None]

InFlight == [state |-> "Received", error |-> NoException, body |-> None]

\* the f-string of the Task description
Description(keyword) ==
    "Perform a web search for " \o keyword
        \o " and return the top results with titles, links, and snippets."

\* one Task object bound to a name shared by all invocations
SharedTask(r) == CHOOSE x \in DOMAIN search_task : TRUE

\* the Task object bound to the local name search_task of invocation r
search_task_of(r) == r

\* truthiness of a list: empty is falsy
TruthyWhenNonEmpty(search_data) ==
    search_data # None /\ search_data.results # <<>>

\* `if not search_data`: None is falsy, a SearchResponse object is truthy
Truthy(search_data) == search_data # None

Failed(exc) == [state |-> "Failed", error |-> exc, body |-> None]

Completed(body) == [state |-> "Completed", error |-> NoException, body |-> body]

\* the response built from the query the tool was last called with
ReturnEchoingQuery(r) ==
    LET search_data == search_task[search_task_of(r)].response
    IN  IF ~Truthy(search_data)
        THEN Failed(HTTPException(InternalError, "Failed to fetch search results."))
        ELSE Completed([keyword |-> last_call[r].query,
                        results |-> search_data.results])

\* the lines after client.agent without the `if not search_data` check
ReturnUnchecked(r) ==
    LET search_data == search_task[search_task_of(r)].response
    IN  IF search_data = None
        THEN Failed(AttributeError)
        ELSE Completed([keyword |-> input_data[r].keyword,
                        results |-> search_data.results])

\* perform_search after client.agent has returned
perform_search_return(r) ==
    LET search_data == search_task[search_task_of(r)].response
    IN  IF ~Truthy(search_data)
        THEN Failed(HTTPException(InternalError, "Failed to fetch search results."))
        ELSE Completed([keyword |-> input_data[r].keyword,
                        results |-> search_data.results])

\* a result the orchestrator adds of its own
MadeUp == [title |-> "made up", link |-> "#", snippet |-> "made up"]

\* what the orchestrator may leave in search_task.response
AgentResponses(r) ==
    LET got == last_call[r].call.value
    IN  {None, SearchResponse(got), SearchResponse(got \o <<MadeUp>>),
         SearchResponse(<<>>)}

CallSummary(reply, call) ==
    [posted |-> call.posted,
     error |-> call.exc.type,
     status_code |-> IF call.posted /\ reply.kind = "response"
                     THEN reply.status_code ELSE 0]

\* FastAPI hands a validated SearchInput to perform_search
Receive(r, keyword) ==
    /\ pc[r] = "idle"
    /\ input_data' = [input_data EXCEPT ![r] = [keyword |-> keyword]]
    /\ outcome' = [outcome EXCEPT ![r] = InFlight]
    /\ pc' = [pc EXCEPT ![r] = "task"]
    /\ UNCHANGED <<environ, client, search_task, tool_calls, last_call,
                   agent_response, posts>>

\* search_task = Task(description=..., tools=[SerpAPITool], ...)
CreateTask(r) ==
    /\ pc[r] = "task"
    /\ search_task' = [search_task EXCEPT ![search_task_of(r)] =
            [description |-> Description(input_data[r].keyword), response |-> None]]
    /\ pc' = [pc EXCEPT ![r] = "agent"]
    /\ UNCHANGED <<environ, client, input_data, tool_calls, last_call,
                   agent_response, outcome, posts>>

\* inside client.agent: the orchestrator calls SerpAPITool.search(query); what
\* the call raises stays with the orchestrator until AgentReraises
AgentCallsTool(r, query, reply) ==
    /\ pc[r] = "agent"
    /\ Len(tool_calls[r]) < MaxToolCalls
    /\ LET call == search(environ, query, reply)
           seen == IF call.posted THEN reply ELSE NoReply
       IN  /\ last_call' = [last_call EXCEPT ![r] =
                   [query |-> query, reply |-> seen, call |-> call]]
           /\ tool_calls' = [tool_calls EXCEPT ![r] =
                   Append(@, CallSummary(seen, call))]
           /\ posts' = posts + (IF call.posted THEN 1 ELSE 0)
    /\ UNCHANGED <<environ, client, pc, input_data, search_task, agent_response,
                   outcome>>

\* inside client.agent: what the last tool call raised leaves client.agent and,
\* perform_search having no try, perform_search
AgentReraises(r) ==
    /\ pc[r] = "agent"
    /\ last_call[r].call.outcome = "raise"
    /\ outcome' = [outcome EXCEPT ![r] = Failed(last_call[r].call.exc)]
    /\ pc' = [pc EXCEPT ![r] = "done"]
    /\ UNCHANGED <<environ, client, input_data, search_task, tool_calls, last_call,
                   agent_response, posts>>

\* client.agent raises on its own account and the exception leaves perform_search
AgentFails(r) ==
    /\ pc[r] = "agent"
    /\ outcome' = [outcome EXCEPT ![r] = Failed(AgentError)]
    /\ pc' = [pc EXCEPT ![r] = "done"]
    /\ UNCHANGED <<environ, client, input_data, search_task, tool_calls, last_call,
                   agent_response, posts>>

\* client.agent returns, having set the response of the task it was given
AgentReturns(r, response) ==
    /\ pc[r] = "agent"
    /\ search_task' = [search_task EXCEPT ![search_task_of(r)].response = response]
    /\ agent_response' = [agent_response EXCEPT ![r] = response]
    /\ pc' = [pc EXCEPT ![r] = "check"]
    /\ UNCHANGED <<environ, client, input_data, tool_calls, last_call, outcome,
                   posts>>

\* search_data = search_task.response; the check; the return
Respond(r) ==
    /\ pc[r] = "check"
    /\ outcome' = [outcome EXCEPT ![r] = perform_search_return(r)]
    /\ pc' = [pc EXCEPT ![r] = "done"]
    /\ UNCHANGED <<environ, client, input_data, search_task, tool_calls, last_call,
                   agent_response, posts>>

InitFor(requests) ==
    /\ environ \in Environs
    /\ client = [server |-> "localserver", default_llm_model |-> "azure/gpt-4o"]
    /\ pc = [r \in requests |-> "idle"]
    /\ input_data = [r \in requests |-> [keyword |-> ""]]
    /\ search_task = [r \in requests |-> NoTask]
    /\ tool_calls = [r \in requests |-> <<>>]
    /\ last_call = [r \in requests |-> NoCall]
    /\ agent_response = [r \in requests |-> None]
    /\ outcome = [r \in requests |-> NoOutcome]
    /\ posts = 0

Requests == DOMAIN pc

\* one request, every reply of the provider
Init == InitFor({"r1"})

Next ==
    \/ \E r \in Requests, keyword \in Keywords : Receive(r, keyword)
    \/ \E r \in Requests : CreateTask(r)
    \/ \E r \in Requests, reply \in ProviderReplies :
           \E query \in {input_data[r].keyword, OtherQuery} :
               AgentCallsTool(r, query, reply)
    \/ \E r \in Requests : AgentReraises(r)
    \/ \E r \in Requests : AgentFails(r)
    \/ \E r \in Requests : \E response \in AgentResponses(r) : AgentReturns(r, response)
    \/ \E r \in Requests : Respond(r)

Spec == Init /\ [][Next]_vars

\* two requests served at once, a few replies of the provider
InitConcurrent == InitFor({"r1", "r2"})

NextConcurrent ==
    \/ \E r \in Requests, keyword \in Keywords : Receive(r, keyword)
    \/ \E r \in Requests : CreateTask(r)
    \/ \E r \in Requests, reply \in FewReplies :
           AgentCallsTool(r, input_data[r].keyword, reply)
    \/ \E r \in Requests : AgentReraises(r)
    \/ \E r \in Requests : AgentFails(r)
    \/ \E r \in Requests : \E response \in AgentResponses(r) : AgentReturns(r, response)
    \/ \E r \in Requests : Respond(r)

SpecConcurrent == InitConcurrent /\ [][NextConcurrent]_vars

-----------------------------------------------------------------------------
(* Properties *)

Min(a, b) == IF a < b THEN a ELSE b

IsCompleted(r) == outcome[r].state = "Completed"

IsFailed(r) == outcome[r].state = "Failed"

\* the latest tool call of r reached the provider and got a 200
GotOk(r) ==
    /\ last_call[r].reply.kind = "response"
    /\ last_call[r].reply.status_code = StatusOK

\* the organic entries of the 200 reply to the latest tool call of r
OrganicOf(r) == Get(last_call[r].reply.json, "organic", <<>>)

ToolReturned(r) == last_call[r].call.outcome = "return"

Placeholder(key) ==
    CASE key = "title"   -> "No Title"
      [] key = "link"    -> "#"
      [] key = "snippet" -> "No Description"

\* C1: the keyword of every successful response is the keyword of the request,
\* whatever query the tool was called with and whatever the orchestrator
\* returned.
C1_KeywordEchoed ==
    \A r \in Requests :
        IsCompleted(r) => outcome[r].body.keyword = input_data[r].keyword

\* a request for "rust vs go" completed although the tool was last called with
\* another query and the orchestrator added a result of its own
C1_Witness ==
    \E r \in Requests :
        /\ IsCompleted(r)
        /\ input_data[r].keyword = "rust vs go"
        /\ last_call[r].query = OtherQuery
        /\ Len(last_call[r].call.value) > 0
        /\ outcome[r].body.results = last_call[r].call.value \o <<MadeUp>>
        /\ outcome[r].body.keyword = "rust vs go"

\* C2 as stated: for every non-empty keyword, the results of every successful
\* response of the handler number at most 10.
C2_ResponseAtMostTen ==
    \A r \in Requests :
        (IsCompleted(r) /\ input_data[r].keyword # "")
            => Len(outcome[r].body.results) <= Top10

\* C2 as amended: every list SerpAPITool.search returns has at most 10
\* entries, and the handler returns the results of the orchestrator's response
\* as they are, so a successful response has at most 10 results whenever the
\* orchestrator's response has.
C2_ToolAtMostTen ==
    \A r \in Requests :
        /\ ToolReturned(r) => Len(last_call[r].call.value) <= Top10
        /\ IsCompleted(r) =>
              /\ outcome[r].body.results = agent_response[r].results
              /\ Len(agent_response[r].results) <= Top10
                    => Len(outcome[r].body.results) <= Top10

\* the provider answered with more than 10 entries, the tool returned 10 and
\* the handler returned those 10
C2_Witness ==
    \E r \in Requests :
        /\ GotOk(r) /\ ToolReturned(r)
        /\ Len(OrganicOf(r)) > Top10
        /\ Len(last_call[r].call.value) = Top10
        /\ IsCompleted(r)
        /\ outcome[r].body.results = last_call[r].call.value

\* C3: on a 200 with n organic entries the tool returns min(n, 10) results, the
\* i-th made from the i-th entry: none dropped, duplicated or reordered.
C3_FirstTenInOrder ==
    \A r \in Requests :
        GotOk(r) =>
            LET organic == OrganicOf(r)
                value == last_call[r].call.value
                n == Min(Len(organic), Top10)
            IN  /\ (\A i \in 1..n : organic[i].json = "object") => ToolReturned(r)
                /\ ToolReturned(r) =>
                      /\ Len(value) = n
                      /\ \A i \in 1..n :
                            \A key \in FieldKeys \cap DOMAIN organic[i].members :
                                value[i][key] = organic[i].members[key]

\* 12 organic entries gave 10 results, the 2nd carrying the 2nd entry's title
\* and the 10th the 10th entry's link
C3_Witness ==
    \E r \in Requests :
        /\ GotOk(r) /\ ToolReturned(r)
        /\ Len(OrganicOf(r)) = 12
        /\ Len(last_call[r].call.value) = Top10
        /\ last_call[r].call.value[10].link = "link 10"
        /\ last_call[r].call.value[2].title = "title 2"

\* C4 as stated: a field that is absent or empty in the entry becomes the
\* placeholder, any other field keeps the provider's value.
C4_AbsentOrEmptyGetsPlaceholder ==
    \A r \in Requests :
        (GotOk(r) /\ ToolReturned(r)) =>
            \A i \in 1..Len(last_call[r].call.value) : \A key \in FieldKeys :
                LET entry == OrganicOf(r)[i].members
                    field == last_call[r].call.value[i][key]
                IN  IF key \notin DOMAIN entry \/ entry[key] = ""
                    THEN field = Placeholder(key)
                    ELSE field = entry[key]

\* C4 as amended: a field that is absent from the entry becomes the
\* placeholder; a field that is present keeps the provider's value, the empty
\* string included.  Every SearchResult has all three fields.
C4_AbsentGetsPlaceholder ==
    \A r \in Requests :
        (GotOk(r) /\ ToolReturned(r)) =>
            \A i \in 1..Len(last_call[r].call.value) :
                /\ DOMAIN last_call[r].call.value[i] = FieldKeys
                /\ \A key \in FieldKeys :
                      LET entry == OrganicOf(r)[i].members
                          field == last_call[r].call.value[i][key]
                      IN  IF key \notin DOMAIN entry
                          THEN field = Placeholder(key)
                          ELSE field = entry[key]

\* one result with an absent field set to its placeholder, an empty field left
\* empty and a valued field kept
C4_Witness ==
    \E r \in Requests :
        /\ GotOk(r) /\ ToolReturned(r)
        /\ \E i \in 1..Len(last_call[r].call.value) :
              LET entry == OrganicOf(r)[i].members
                  result == last_call[r].call.value[i]
              IN  /\ "title" \notin DOMAIN entry /\ result.title = "No Title"
                  /\ "link" \in DOMAIN entry /\ entry.link = "" /\ result.link = ""
                  /\ "snippet" \in DOMAIN entry /\ entry.snippet # ""
                  /\ result.snippet = entry.snippet

\* the i-th tool call of r was answered with a status other than 200
Non200(r, i) == tool_calls[r][i].status_code \notin {0, StatusOK}

UpstreamFailure ==
    HTTPException(InternalError, "SerpAPI Request Failed: rate limit exceeded")

\* C5: a provider status other than 200 is fatal to the request on the first
\* failed call: no provider call follows it, and the request ends failed with
\* the upstream error and without a response body.
C5_Non200FailsRequest ==
    \A r \in Requests : \A i \in 1..Len(tool_calls[r]) :
        Non200(r, i) =>
            /\ i = Len(tool_calls[r])
            /\ pc[r] = "done" =>
                  /\ IsFailed(r)
                  /\ outcome[r].error = UpstreamFailure
                  /\ outcome[r].body = None

KeyNotFound == HTTPException(InternalError, "SerpAPI API Key not found!")

EmptyOrganic(r) == GotOk(r) /\ OrganicOf(r) = <<>>

\* C7: a 200 with an empty organic list, or with no organic key, is no error:
\* the tool returns the empty list, and the handler, handed a response with
\* those empty results, completes with an empty results sequence.
C7_EmptyIsNotAnError ==
    \A r \in Requests :
        EmptyOrganic(r) =>
            /\ ToolReturned(r)
            /\ last_call[r].call.value = <<>>
            /\ (pc[r] = "done" /\ agent_response[r] = SearchResponse(<<>>)) =>
                  /\ IsCompleted(r)
                  /\ outcome[r].body.results = <<>>
                  /\ outcome[r].error = NoException

\* the provider answered 200 without an organic key and the request completed
\* with no results
C7_Witness ==
    \E r \in Requests :
        /\ GotOk(r)
        /\ "organic" \notin DOMAIN last_call[r].reply.json
        /\ ToolReturned(r)
        /\ IsCompleted(r)
        /\ outcome[r].body.results = <<>>

\* C8: every failure ends the request with one translated error (an
\* HTTPException); none is retried, swallowed, or leaves perform_search as
\* another exception.
C8_FailuresTranslated ==
    \A r \in Requests :
        /\ \A i \in 1..Len(tool_calls[r]) :
              tool_calls[r][i].error # "none" => i = Len(tool_calls[r])
        /\ pc[r] = "done" =>
              /\ IsFailed(r) => outcome[r].error.type = "HTTPException"
              /\ (\E i \in 1..Len(tool_calls[r]) : tool_calls[r][i].error # "none")
                    => IsFailed(r)

SearchUnavailable ==
    HTTPException(InternalError, "Failed to fetch search results.")

C9_States ==
    \A r \in Requests :
        /\ outcome[r].state \in {"none", "Received", "Completed", "Failed"}
        /\ (pc[r] = "done") <=> (IsCompleted(r) \/ IsFailed(r))
        /\ (pc[r] = "idle") <=> (outcome[r].state = "none")
        /\ IsCompleted(r) =>
              /\ outcome[r].error = NoException
              /\ outcome[r].body # None
              /\ agent_response[r] # None
              /\ outcome[r].body.results = agent_response[r].results
        /\ IsFailed(r) =>
              /\ outcome[r].error # NoException
              /\ outcome[r].body = None

C9_Steps ==
    \A r \in Requests :
        /\ outcome[r].state \in {"Completed", "Failed"} => outcome'[r] = outcome[r]
        /\ outcome[r].state = "Received" =>
              outcome'[r].state \in {"Received", "Completed", "Failed"}
        /\ (pc[r] = "check" /\ pc'[r] # "check") =>
              IF agent_response[r] = None
              THEN outcome'[r] = Failed(SearchUnavailable)
              ELSE /\ outcome'[r].state = "Completed"
                   /\ outcome'[r].body.results = agent_response[r].results

\* C9: a request goes from Received to exactly one of Completed and Failed and
\* stays there: when client.agent returns with no response it ends Failed with
\* the 500 "Failed to fetch search results." and no body, when client.agent
\* returns with a response it ends Completed with that response's results; no
\* request has both an error and a body.
C9_ReceivedToCompletedOrFailed == []C9_States /\ [][C9_Steps]_vars

\* client.agent returned None after a tool call and the request ended Failed
\* with the 500 of the handler
C9_Witness ==
    \E r \in Requests :
        /\ pc[r] = "done"
        /\ Len(tool_calls[r]) > 0
        /\ agent_response[r] = None
        /\ outcome[r] = Failed(SearchUnavailable)

C10_Isolation ==
    \A r \in Requests :
        /\ pc[r] \in {"agent", "check"} =>
              search_task[r].description = Description(input_data[r].keyword)
        /\ pc[r] = "check" => search_task[r].response = agent_response[r]
        /\ IsCompleted(r) =>
              /\ outcome[r].body.keyword = input_data[r].keyword
              /\ outcome[r].body.results = agent_response[r].results

C10_ModuleStateKept == environ' = environ /\ client' = client

\* C10: under any interleaving of the invocations each one has its own Task,
\* each response carries the keyword of its own request and the results the
\* orchestrator produced for its own task, and no step changes the
\* module-level state (the environment, the client).
C10_IndependentRequests == []C10_Isolation /\ [][C10_ModuleStateKept]_vars

\* one request completed while the other, for another keyword and with other
\* results, waits at the check of its own response
C10_Witness ==
    /\ "r1" \in Requests /\ "r2" \in Requests
    /\ IsCompleted("r1")
    /\ pc["r2"] = "check"
    /\ input_data["r1"].keyword # input_data["r2"].keyword
    /\ agent_response["r2"] # None
    /\ agent_response["r2"].results # outcome["r1"].body.results
    /\ Len(tool_calls["r1"]) > 0 /\ Len(tool_calls["r2"]) > 0

====
